---- MODULE Spec2Model ----
(***************************************************************************)
(* State-machine model of src/bot.py: the admin Telegram bot front end of  *)
(* the shipment tracker.  One action per handler; every handler is         *)
(* modelled whole (wrapper, body, trailing invalidation, replies).         *)
(*                                                                         *)
(* Conventions                                                             *)
(*  - a handler is an operator  h(s, m, f)  from the backend state s, the  *)
(*    inbound message m and the fault f injected into the key-value store  *)
(*    to a result [s, tr, exc]: the new backend state, the ordered trace   *)
(*    of observable events, and whether an exception escapes it;           *)
(*  - an event is a triple <<kind, what, subject>> of strings; the kinds   *)
(*    are reply, answer, edit (messages to the requester), warning, error  *)
(*    (log lines), call (a collaborator of utils is called), redis (a      *)
(*    store primitive is issued), mutate (shipment state was changed),     *)
(*    invalidate (invalidate_cache is entered), register (a next-step      *)
(*    handler is registered), modules (get_app_modules is called);         *)
(*  - info and debug log lines and console.print of plain strings are not  *)
(*    recorded.                                                            *)
(***************************************************************************)
EXTENDS Integers, Sequences, FiniteSets, TLC

VARIABLES
    redis_client,           \* TRUE iff utils.redis_client is a client (truthy)
    count,                  \* redis string keys rate_limit:<user>, 0 = key absent
    ttl,                    \* remaining seconds of rate_limit:<user>, NoTTL = none
    winAge,                 \* history: seconds since the window's first counted request
    reqs,                   \* history: counted requests of the user in that window
    paused_simulations,     \* redis hash paused_simulations: tn -> BOOLEAN ("true"/absent)
    sim_speed_multipliers,  \* redis hash sim_speed_multipliers: tn -> string or None
    shipments,              \* database: tn -> status, "absent" = no row
    webhook_url,            \* database column Shipment.webhook_url: tn -> url or None
    cache,                  \* set of tn with a redis key shipment:<tn>
    next_step,              \* per chat: handler registered by register_next_step_handler
    last,                   \* outcome of the request being returned from; idle between requests
    threads,                \* per worker thread: the request it has in rate_limit.wrapper
    admitted,               \* history, per user: bodies run per generation of the counter key
    reading,                \* per tn: what a reader that missed the cache has read
    cached                  \* per tn: the value of the entry shipment:<tn> that a reader filled

\* the variables that only the actions of interleaved requests and of the
\* cache's readers change
aside == <<threads, admitted, reading, cached>>

vars == <<redis_client, count, ttl, winAge, reqs, paused_simulations,
          sim_speed_multipliers, shipments, webhook_url, cache, next_step, last, aside>>

(***************************************************************************)
(* Configuration and bounds                                                *)
(***************************************************************************)
\* utils.RATE_LIMIT_MAX and utils.RATE_LIMIT_WINDOW (imported at bot.py:15);
\* their values are set outside this file, the model uses small stand-ins.
RATE_LIMIT_MAX == 2
RATE_LIMIT_WINDOW == 2
\* cap on a counter (a counter whose expire failed grows without bound)
MaxCount == 3
\* chats that have a next-step handler pending at the same time
MaxPending == 1
\* generations of one user's counter key (creation to expiry) that are followed
MaxGen == 2
\* threads of the bot's worker pool
Workers == {"w1", "w2"}

Users == {"u1", "u2"}
\* config.allowed_admins (bot.py:32)
ALLOWED_ADMINS == {"u1"}
TrackingNumbers == {"T1", "T2"}

None == "None"
NoTTL == -1

\* bot.py never imports or defines the name Panel (lines 1-17): evaluating
\* Panel(...) raises NameError.
Panel_defined == FALSE

(***************************************************************************)
(* Faults of the key-value store.  safe_redis_operation(op, ...) either    *)
(* returns op's value ("ok"), lets op's exception through ("raise"), or    *)
(* swallows it and returns None ("none").  At most one primitive fails     *)
(* per request: incr, expire, hget, hset, hdel or delete.                  *)
(***************************************************************************)
NoFault == [at |-> "nowhere", how |-> "ok"]
FaultsAt(points) == {NoFault} \cup [at : points, how : {"raise", "none"}]

safe_redis_operation(f, op) == IF f.at = op THEN f.how ELSE "ok"

(***************************************************************************)
(* Backend state threaded through a handler                                *)
(***************************************************************************)
Backend ==
    [paused |-> paused_simulations, speed |-> sim_speed_multipliers,
     db |-> shipments, hook |-> webhook_url, cache |-> cache, next |-> next_step]

SetBackend(s) ==
    /\ paused_simulations' = s.paused
    /\ sim_speed_multipliers' = s.speed
    /\ shipments' = s.db
    /\ webhook_url' = s.hook
    /\ cache' = s.cache
    /\ next_step' = s.next

Res(s, tr, exc) == [s |-> s, tr |-> tr, exc |-> exc]

\* utils.is_admin: membership in the admin allowlist
is_admin(u) == u \in ALLOWED_ADMINS

\* the guard `if not is_admin(message.from_user.id):` that opens every
\* privileged slash command
AccessDeniedNever(u) == FALSE
AccessDenied(u) == ~is_admin(u)

\* the reply, warning and return of a denied command
Denied(s, pre, u) ==
    Res(s, pre \o << <<"reply", "Access denied.", "">>, <<"warning", "Access denied", u>> >>,
        FALSE)

\* `except Exception as e:` of a handler: reply, log, console.print(Panel(...))
HandlerExcept(r, what) ==
    IF ~r.exc THEN r
    ELSE Res(r.s, r.tr \o << <<"reply", "Error", "">>, <<"error", what, "">> >>,
             ~Panel_defined)

(***************************************************************************)
(* rate_limit (bot.py:43-62)                                               *)
(***************************************************************************)
\* line 52: `if count > RATE_LIMIT_MAX`
ExceedsOffByOne(c) == c >= RATE_LIMIT_MAX
ExceedsNever(c) == FALSE
ExceedsLax(c) == c > RATE_LIMIT_MAX + 1
Exceeds(c) == c > RATE_LIMIT_MAX

\* lines 58-61: log, console.print(Panel(...)), reply
WrapperExcept(tr) ==
    [tr |-> tr \o << <<"error", "Redis error in rate_limit", "">> >>
               \o (IF Panel_defined
                   THEN << <<"reply", "Error processing request. Please try again.", "">> >>
                   ELSE <<>>),
     exc |-> ~Panel_defined]

\* a variant in which every user shares one counter
rate_key_shared(user_id) == "u1"
\* key = f"rate_limit:{user_id}": count and ttl are indexed by the user whose
\* id the key carries
rate_key(user_id) == user_id

\* body: what func(message) does when the wrapper calls it (line 56)
rate_limit(body, s, m, f) ==
    LET u == m.user
        key == rate_key(u)
        incr == IF redis_client THEN safe_redis_operation(f, "incr") ELSE "absent"
        \* redis INCR: creates the key at 1 without expiry, else adds one
        cnt == CASE incr = "ok" -> count[key] + 1
                 [] incr = "absent" -> 0
                 [] OTHER -> -1                      \* no integer was returned
        count1 == IF incr = "ok" THEN [count EXCEPT ![key] = cnt] ELSE count
        opens == incr = "ok" /\ winAge[u] = RATE_LIMIT_WINDOW
        age1 == IF opens THEN [winAge EXCEPT ![u] = 0] ELSE winAge
        reqs1 == CASE opens -> [reqs EXCEPT ![u] = 1]
                   [] incr = "ok" /\ ~opens -> [reqs EXCEPT ![u] = @ + 1]
                   [] OTHER -> reqs
        expire == IF cnt = 1 THEN safe_redis_operation(f, "expire") ELSE "skipped"
        ttl1 == IF expire = "ok" THEN [ttl EXCEPT ![key] = RATE_LIMIT_WINDOW] ELSE ttl
        base == [count |-> count1, ttl |-> ttl1, winAge |-> age1, reqs |-> reqs1,
                 cnt |-> cnt, s |-> s, ran |-> FALSE]
        \* incr raised, incr returned None (None > int is a TypeError), expire raised
        failed == incr \in {"raise", "none"} \/ expire = "raise"
    IN  IF failed
        THEN base @@ WrapperExcept(<<>>)
        ELSE IF Exceeds(cnt)
        THEN base @@ [tr |-> << <<"reply", "Rate limit exceeded. Please try again later.", "">>,
                                <<"warning", "Rate limit exceeded", u>> >>,
                      exc |-> FALSE]
        ELSE LET r == body IN
             IF r.exc
             THEN [base EXCEPT !.s = r.s, !.ran = TRUE] @@ WrapperExcept(r.tr)
             ELSE [base EXCEPT !.s = r.s, !.ran = TRUE] @@ [tr |-> r.tr, exc |-> FALSE]

(***************************************************************************)
(* invalidate_cache (bot.py:67-77)                                         *)
(***************************************************************************)
Invoked(tn) == << <<"invalidate", "invalidate_cache", tn>> >>

\* the key of a shipment's cache entry: f"shipment:{tracking_number}"
cache_key(tn) == <<"shipment:", tn>>

\* a variant that drops every cache entry instead of the one named
invalidate_cache_flush(s, tn, f) ==
    IF ~redis_client THEN Res(s, Invoked(tn), FALSE)
    ELSE LET del == safe_redis_operation(f, "delete") IN
         IF del = "raise"
         THEN Res(s, Invoked(tn) \o << <<"redis", "delete", tn>>,
                                       <<"error", "Error invalidating cache", tn>> >>,
                  ~Panel_defined)
         ELSE Res(IF del = "ok" THEN [s EXCEPT !.cache = {}] ELSE s,
                  Invoked(tn) \o << <<"redis", "delete", tn>> >>, FALSE)

\* a variant that takes a missing entry for an error
invalidate_cache_strict(s, tn, f) ==
    IF ~redis_client THEN Res(s, Invoked(tn), FALSE)
    ELSE LET del == safe_redis_operation(f, "delete") IN
         IF del = "raise" \/ cache_key(tn) \notin s.cache
         THEN Res(s, Invoked(tn) \o << <<"redis", "delete", tn>>,
                                       <<"error", "Error invalidating cache", tn>> >>,
                  ~Panel_defined)
         ELSE Res(IF del = "ok" THEN [s EXCEPT !.cache = @ \ {cache_key(tn)}] ELSE s,
                  Invoked(tn) \o << <<"redis", "delete", tn>> >>, FALSE)

invalidate_cache(s, tn, f) ==
    IF ~redis_client THEN Res(s, Invoked(tn), FALSE)
    ELSE LET del == safe_redis_operation(f, "delete") IN
         IF del = "raise"
         THEN Res(s, Invoked(tn) \o << <<"redis", "delete", tn>>,
                                       <<"error", "Error invalidating cache", tn>> >>,
                  ~Panel_defined)
         ELSE Res(IF del = "ok" THEN [s EXCEPT !.cache = @ \ {cache_key(tn)}] ELSE s,
                  Invoked(tn) \o << <<"redis", "delete", tn>> >>, FALSE)


(***************************************************************************)
(* Helpers shared by the handlers                                          *)
(***************************************************************************)
After(pre, r) == Res(r.s, pre \o r.tr, r.exc)

\* db, Shipment, sanitize_tracking_number, ... = get_app_modules()
Modules == << <<"modules", "get_app_modules", "">> >>

\* a variant that empties the cache on the way
Usage_flush(s, pre, cmd) ==
    Res([s EXCEPT !.cache = {}],
        pre \o << <<"reply", "Usage", cmd>>, <<"warning", "Invalid command format", cmd>> >>,
        FALSE)

Usage(s, pre, cmd) ==
    Res(s, pre \o << <<"reply", "Usage", cmd>>, <<"warning", "Invalid command format", cmd>> >>,
        FALSE)

InvalidTN(s, pre) ==
    Res(s, pre \o << <<"reply", "Invalid tracking number.", "">>,
                     <<"error", "Invalid tracking number", "">> >>, FALSE)

NotFound(s, tn) ==
    Res(s, << <<"reply", "Shipment not found", tn>>, <<"warning", "Shipment not found", tn>> >>,
        FALSE)

\* utils: sanitize_tracking_number(sanitize_input(text)): the tracking number,
\* or a falsy value for text that is not a well-formed tracking number
sanitize_tracking_number(tok) == IF tok \in TrackingNumbers THEN tok ELSE None

\* utils.get_shipment_details: the shipment's row (here its status) or None
get_shipment_details(s, tn) ==
    IF tn \in TrackingNumbers /\ s.db[tn] # "absent" THEN s.db[tn] ELSE None

Lookup(tn) == << <<"call", "get_shipment_details", tn>> >>

Completed == {"Delivered", "Returned"}

\* float(text): tenths of the parsed number, NaF when float() raises ValueError
NaF == -1
\* float("nan"): a float that compares false with every number
NaN == -2
ParseFloat(tok) ==
    CASE tok = "2" -> 20
      [] tok = "0.1" -> 1
      [] tok = "10" -> 100
      [] tok = "0" -> 0
      [] tok = "50" -> 500
      [] tok = "nan" -> NaN
      [] OTHER -> NaF

\* str(speed) of a float given in tenths
StrOfFloat(v) ==
    CASE v = 20 -> "2.0"
      [] v = 1 -> "0.1"
      [] v = 100 -> "10.0"
      [] v = 0 -> "0.0"
      [] v = 500 -> "50.0"
      [] v = NaN -> "nan"
      [] OTHER -> "?"

\* `if speed < 0.1 or speed > 10` (lines 424, 662), in tenths
SpeedOutOfRange(v) == v # NaN /\ (v < 1 \/ v > 100)

\* `if redis_client: safe_redis_operation(redis_client.<op>, hash, tn, ...)`:
\* s1 is the backend state after the write
\* a variant whose write never reaches the hash
hash_write_lost(s, s1, op, what, tn, f) ==
    IF ~redis_client THEN Res(s, <<>>, FALSE)
    ELSE Res(s, << <<"redis", op, tn>>, <<"mutate", what, tn>> >>, FALSE)

hash_write(s, s1, op, what, tn, f) ==
    IF ~redis_client THEN Res(s, <<>>, FALSE)
    ELSE LET o == safe_redis_operation(f, op) IN
         CASE o = "raise" -> Res(s, << <<"redis", op, tn>> >>, TRUE)
           [] o = "ok" -> Res(s1, << <<"redis", op, tn>>, <<"mutate", what, tn>> >>, FALSE)
           [] OTHER -> Res(s, << <<"redis", op, tn>> >>, FALSE)

\* the tail of every mutating handler of this file (lines 341-344, 391-394,
\* 437-440, 675-678, 702-705): invalidate_cache(tn), then the success reply
Finish(w, tn, f, msg) ==
    IF w.exc THEN w
    ELSE LET inv == invalidate_cache(w.s, tn, f) IN
         IF inv.exc THEN After(w.tr, inv)
         ELSE Res(inv.s, w.tr \o inv.tr \o << <<"reply", msg, tn>> >>, FALSE)

(***************************************************************************)
(* Slash commands                                                          *)
(***************************************************************************)
\* /myid (bot.py:80-86)
get_my_id(s, m, f) ==
    Res(s, << <<"reply", "Your Telegram user ID", m.user>> >>, FALSE)

\* /start, /menu (bot.py:88-99)
send_menu(s, m, f) ==
    IF AccessDenied(m.user) THEN Denied(s, <<>>, m.user)
    ELSE Res(s, << <<"call", "send_dynamic_menu", "1">> >>, FALSE)

\* /track (bot.py:101-158)
track_shipment(s, m, f) ==
    IF AccessDenied(m.user) THEN Denied(s, Modules, m.user)
    ELSE IF Len(m.text) < 1 THEN Usage(s, Modules, "/track")
    ELSE LET tn == sanitize_tracking_number(m.text[1]) IN
         IF tn = None THEN InvalidTN(s, Modules)
         ELSE IF get_shipment_details(s, tn) = None
         THEN After(Modules \o Lookup(tn), NotFound(s, tn))
         ELSE Res(s, Modules \o Lookup(tn) \o << <<"reply", "Shipment", tn>> >>, FALSE)

\* /stats (bot.py:160-195)
system_stats(s, m, f) ==
    IF AccessDenied(m.user) THEN Denied(s, Modules, m.user)
    ELSE Res(s, Modules \o << <<"call", "Shipment.query.count", "">> >>
                \o (IF redis_client
                    THEN << <<"redis", "hgetall", "paused_simulations">>,
                            <<"redis", "llen", "notification_queue">> >>
                    ELSE <<>>)
                \o << <<"reply", "System Statistics", "">> >>, FALSE)

\* /notify (bot.py:197-241)
manual_notification(s, m, f) ==
    IF AccessDenied(m.user) THEN Denied(s, Modules, m.user)
    ELSE IF Len(m.text) < 1 THEN Usage(s, Modules, "/notify")
    ELSE LET tn == sanitize_tracking_number(m.text[1]) IN
         IF tn = None THEN InvalidTN(s, Modules)
         ELSE IF get_shipment_details(s, tn) = None
         THEN After(Modules \o Lookup(tn), NotFound(s, tn))
         ELSE Res(s, Modules \o Lookup(tn)
                     \o (IF redis_client
                         THEN << <<"redis", "llen", "notification_queue">> >> ELSE <<>>)
                     \o << <<"reply", "Select notification type", tn>> >>, FALSE)

\* utils.search_shipments(query, page=1): the tracking numbers the query matches
search_shipments(s, query) ==
    {t \in TrackingNumbers : s.db[t] # "absent" /\ (query = t \/ query = "all")}

\* /search (bot.py:243-278)
search_command(s, m, f) ==
    IF AccessDenied(m.user) THEN Denied(s, <<>>, m.user)
    ELSE IF Len(m.text) < 1 THEN Usage(s, <<>>, "/search")
    ELSE LET query == m.text[1]
             pre == << <<"call", "search_shipments", query>> >>
         IN  IF search_shipments(s, query) = {}
             THEN Res(s, pre \o << <<"reply", "No shipments found", query>> >>, FALSE)
             ELSE Res(s, pre \o << <<"reply", "Search Results", query>> >>, FALSE)

\* /bulk_action (bot.py:280-298)
bulk_action_command(s, m, f) ==
    IF AccessDenied(m.user) THEN Denied(s, <<>>, m.user)
    ELSE Res(s, << <<"reply", "Select bulk action", "">> >>, FALSE)

\* /stop, the try block (bot.py:323-344)
stop_try(s, tn, f) ==
    LET row == get_shipment_details(s, tn)
        hget == IF redis_client THEN safe_redis_operation(f, "hget") ELSE "absent"
        got == IF redis_client THEN << <<"redis", "hget", tn>> >> ELSE <<>>
    IN  IF row = None THEN After(Lookup(tn), NotFound(s, tn))
        ELSE IF row \in Completed
        THEN Res(s, Lookup(tn) \o << <<"reply", "Shipment is already completed", tn>>,
                                     <<"warning", "Cannot pause completed shipment", tn>> >>,
                 FALSE)
        ELSE IF hget = "raise" THEN Res(s, Lookup(tn) \o got, TRUE)
        ELSE IF hget = "ok" /\ s.paused[tn]
        THEN Res(s, Lookup(tn) \o got
                    \o << <<"reply", "Simulation is already paused", tn>>,
                          <<"warning", "Simulation already paused", tn>> >>, FALSE)
        ELSE After(Lookup(tn) \o got,
                   Finish(hash_write(s, [s EXCEPT !.paused[tn] = TRUE], "hset", "paused", tn, f),
                          tn, f, "Simulation paused"))

\* /stop (bot.py:300-348)
stop_simulation(s, m, f) ==
    IF AccessDenied(m.user) THEN Denied(s, Modules, m.user)
    ELSE IF Len(m.text) < 1 THEN Usage(s, Modules, "/stop")
    ELSE LET tn == sanitize_tracking_number(m.text[1]) IN
         IF tn = None THEN InvalidTN(s, Modules)
         ELSE After(Modules, HandlerExcept(stop_try(s, tn, f), "Error in stop command"))

\* /continue, the try block (bot.py:373-394)
continue_try(s, tn, f) ==
    LET row == get_shipment_details(s, tn)
        hget == IF redis_client THEN safe_redis_operation(f, "hget") ELSE "absent"
        got == IF redis_client THEN << <<"redis", "hget", tn>> >> ELSE <<>>
    IN  IF hget = "raise" THEN Res(s, got, TRUE)
        ELSE IF hget = "none" \/ (hget = "ok" /\ ~s.paused[tn])
        THEN Res(s, got \o << <<"reply", "Simulation is not paused", tn>>,
                              <<"warning", "Simulation not paused", tn>> >>, FALSE)
        ELSE IF row = None THEN After(got \o Lookup(tn), NotFound(s, tn))
        ELSE IF row \in Completed
        THEN Res(s, got \o Lookup(tn)
                    \o << <<"reply", "Shipment is already completed", tn>>,
                          <<"warning", "Cannot resume completed shipment", tn>> >>, FALSE)
        ELSE After(got \o Lookup(tn),
                   Finish(hash_write(s, [s EXCEPT !.paused[tn] = FALSE], "hdel", "paused", tn, f),
                          tn, f, "Simulation resumed"))

\* /continue (bot.py:350-398)
continue_simulation(s, m, f) ==
    IF AccessDenied(m.user) THEN Denied(s, Modules, m.user)
    ELSE IF Len(m.text) < 1 THEN Usage(s, Modules, "/continue")
    ELSE LET tn == sanitize_tracking_number(m.text[1]) IN
         IF tn = None THEN InvalidTN(s, Modules)
         ELSE After(Modules, HandlerExcept(continue_try(s, tn, f), "Error in continue command"))

\* the try block shared by /setspeed (bot.py:423-440) and handle_set_speed
\* (bot.py:661-678)
speed_try(s, tn, text, f) ==
    LET speed == ParseFloat(text) IN
    IF speed = NaF THEN Res(s, <<>>, TRUE)
    ELSE IF SpeedOutOfRange(speed)
    THEN Res(s, << <<"reply", "Speed must be between 0.1 and 10.0.", "">>,
                   <<"warning", "Invalid speed value", text>> >>, FALSE)
    ELSE IF get_shipment_details(s, tn) = None THEN After(Lookup(tn), NotFound(s, tn))
    ELSE After(Lookup(tn),
               Finish(hash_write(s, [s EXCEPT !.speed[tn] = StrOfFloat(speed)],
                                 "hset", "speed", tn, f),
                      tn, f, "Simulation speed set"))

\* /setspeed (bot.py:400-444)
set_simulation_speed(s, m, f) ==
    IF AccessDenied(m.user) THEN Denied(s, Modules, m.user)
    ELSE IF Len(m.text) < 2 THEN Usage(s, Modules, "/setspeed")
    ELSE LET tn == sanitize_tracking_number(m.text[1]) IN
         IF tn = None THEN InvalidTN(s, Modules)
         ELSE After(Modules, HandlerExcept(speed_try(s, tn, m.text[2], f),
                                           "Error in setspeed command"))

(***************************************************************************)
(* Callback data.  The string is modelled as the sequence of its pieces    *)
(* between underscores: "pause_T1_1" is <<"pause", "T1", "1">>.            *)
(***************************************************************************)
\* data.startswith(p + "_"), p the pieces of the prefix
StartsWith(data, p) == Len(data) > Len(p) /\ SubSeq(data, 1, Len(p)) = p

\* data.split("_", k)[k]: the rest after k pieces.  A rest of several
\* pieces is a string with an underscore in it, which names no shipment.
Composite == "<composite>"
Rest(data, k) == IF Len(data) = k + 1 THEN data[k + 1] ELSE Composite

\* int(text) succeeds
IsInt(tok) == tok \in {"0", "1", "2", "3"}

\* int(data.split("_")[-1]) succeeds
LastIsInt(data) == IsInt(data[Len(data)])

\* `tracking_number, page = data.split("_")[1], int(data.split("_")[2])`
\* succeeds (no IndexError, no ValueError)
TnPageOk(data) == Len(data) >= 3 /\ IsInt(data[3])

\* show_shipment_details (line 457) and get_shipment_list (line 610) are
\* neither imported nor defined in bot.py: calling them raises NameError
show_shipment_details_defined == FALSE
get_shipment_list_defined == FALSE

TNOrder == <<"T1", "T2">>
InOrder(S) == SelectSeq(TNOrder, LAMBDA t : t \in S)

(***************************************************************************)
(* Collaborators of utils that the callbacks hand the work to.  Their code *)
(* is not in src/: each is modelled by the effect its name and call site   *)
(* state, refuses a requester who is not an admin, reports to the          *)
(* requester itself, and leaves the cache alone.                           *)
(***************************************************************************)
CollabDenied(s) == Res(s, << <<"answer", "Access denied.", "">> >>, FALSE)
CollabNotFound(s, tn) == Res(s, << <<"answer", "Shipment not found", tn>> >>, FALSE)

delete_shipment(s, c, tn) ==
    IF ~is_admin(c.user) THEN CollabDenied(s)
    ELSE IF get_shipment_details(s, tn) = None THEN CollabNotFound(s, tn)
    ELSE Res([s EXCEPT !.db[tn] = "absent", !.hook[tn] = None],
             << <<"mutate", "delete", tn>>, <<"answer", "Shipment deleted", tn>> >>, FALSE)

\* the shipments of the selection sel that are in the database, in a fixed order
Selected(s, sel) == InOrder({t \in sel : s.db[t] # "absent"})

batch_delete_shipments(s, c) ==
    IF ~is_admin(c.user) THEN CollabDenied(s)
    ELSE Res([s EXCEPT !.db = [t \in TrackingNumbers |->
                                  IF t \in c.sel THEN "absent" ELSE s.db[t]],
                       !.hook = [t \in TrackingNumbers |->
                                  IF t \in c.sel /\ s.db[t] # "absent" THEN None ELSE s.hook[t]]],
             [i \in 1..Len(Selected(s, c.sel)) |-> <<"mutate", "delete", Selected(s, c.sel)[i]>>]
             \o << <<"answer", "Shipments deleted", "">> >>, FALSE)

toggle_email_notifications(s, c, tn) ==
    IF ~is_admin(c.user) THEN CollabDenied(s)
    ELSE IF get_shipment_details(s, tn) = None THEN CollabNotFound(s, tn)
    ELSE Res(s, << <<"mutate", "email_notifications", tn>>,
                   <<"answer", "Email notifications toggled", tn>> >>, FALSE)

pause_simulation_callback(s, c, tn) ==
    IF ~is_admin(c.user) THEN CollabDenied(s)
    ELSE IF get_shipment_details(s, tn) = None THEN CollabNotFound(s, tn)
    ELSE IF ~redis_client THEN Res(s, << <<"answer", "Store unavailable", tn>> >>, FALSE)
    ELSE Res([s EXCEPT !.paused[tn] = TRUE],
             << <<"mutate", "paused", tn>>, <<"answer", "Simulation paused", tn>> >>, FALSE)

resume_simulation_callback(s, c, tn) ==
    IF ~is_admin(c.user) THEN CollabDenied(s)
    ELSE IF get_shipment_details(s, tn) = None THEN CollabNotFound(s, tn)
    ELSE IF ~redis_client THEN Res(s, << <<"answer", "Store unavailable", tn>> >>, FALSE)
    ELSE Res([s EXCEPT !.paused[tn] = FALSE],
             << <<"mutate", "paused", tn>>, <<"answer", "Simulation resumed", tn>> >>, FALSE)

bulk_pause_shipments(s, c) ==
    IF ~is_admin(c.user) THEN CollabDenied(s)
    ELSE IF ~redis_client THEN Res(s, << <<"answer", "Store unavailable", "">> >>, FALSE)
    ELSE Res([s EXCEPT !.paused = [t \in TrackingNumbers |->
                                      IF t \in c.sel /\ s.db[t] # "absent" THEN TRUE
                                      ELSE s.paused[t]]],
             [i \in 1..Len(Selected(s, c.sel)) |-> <<"mutate", "paused", Selected(s, c.sel)[i]>>]
             \o << <<"answer", "Shipments paused", "">> >>, FALSE)

bulk_resume_shipments(s, c) ==
    IF ~is_admin(c.user) THEN CollabDenied(s)
    ELSE IF ~redis_client THEN Res(s, << <<"answer", "Store unavailable", "">> >>, FALSE)
    ELSE Res([s EXCEPT !.paused = [t \in TrackingNumbers |->
                                      IF t \in c.sel /\ s.db[t] # "absent" THEN FALSE
                                      ELSE s.paused[t]]],
             [i \in 1..Len(Selected(s, c.sel)) |-> <<"mutate", "paused", Selected(s, c.sel)[i]>>]
             \o << <<"answer", "Shipments resumed", "">> >>, FALSE)

\* a collaborator that changes no shipment state: only the call is recorded
Collab(s, name, arg) == Res(s, << <<"call", name, arg>> >>, FALSE)

\* redis_client.llen("notification_queue") if redis_client else 0
QueueLength == IF redis_client THEN << <<"redis", "llen", "notification_queue">> >> ELSE <<>>

(***************************************************************************)
(* show_shipment_menu (bot.py:608-632)                                     *)
(***************************************************************************)
show_shipment_menu(s, c, page, prefix) ==
    IF ~get_shipment_list_defined THEN Res(s, <<>>, TRUE)
    ELSE IF \A t \in TrackingNumbers : s.db[t] = "absent"
    THEN Res(s, << <<"call", "get_shipment_list", page>>,
                   <<"edit", "No shipments available.", prefix>> >>, FALSE)
    ELSE Res(s, << <<"call", "get_shipment_list", page>>, <<"edit", "menu", prefix>> >>, FALSE)

(***************************************************************************)
(* handle_callback (bot.py:447-606)                                        *)
(***************************************************************************)
\* a branch `page = int(data.split("_")[-1]); show_shipment_menu(...)`
\* the events "route" record that the dispatch chain called
\* show_shipment_menu, for which prefix and for which page
MenuBranch(s, c, prefix) ==
    IF ~LastIsInt(c.data) THEN Res(s, <<>>, TRUE)
    ELSE After(<< <<"route", "show_shipment_menu", prefix>>,
                  <<"route", "page", c.data[Len(c.data)]>> >>,
               show_shipment_menu(s, c, c.data[Len(c.data)], prefix))

\* answer_callback_query(prompt); register_next_step_handler(call.message, h):
\* the handler waits for the next message of the chat of call.message, the
\* private chat of the user who pressed the button
Register(s, c, prompt, h, tn) ==
    Res([s EXCEPT !.next[c.user] = <<h, tn>>],
        << <<"answer", prompt, tn>>, <<"register", h, tn>> >>, FALSE)

\* the if/elif chain of the try block (lines 452-600), first match wins
callback_try(s, c, f) ==
    LET data == c.data IN
    IF StartsWith(data, <<"menu", "page">>)
    THEN IF LastIsInt(data) THEN Collab(s, "send_dynamic_menu", data[Len(data)])
         ELSE Res(s, <<>>, TRUE)
    ELSE IF StartsWith(data, <<"view">>)
    THEN IF ~TnPageOk(data) THEN Res(s, <<>>, TRUE)
         ELSE After(<< <<"route", "show_shipment_details", data[2]>> >>,
                    IF show_shipment_details_defined
                    THEN Collab(s, "show_shipment_details", data[2])
                    ELSE Res(s, <<>>, TRUE))
    ELSE IF StartsWith(data, <<"delete">>)
    THEN IF TnPageOk(data) THEN delete_shipment(s, c, data[2]) ELSE Res(s, <<>>, TRUE)
    ELSE IF StartsWith(data, <<"batch", "select">>)
    THEN Collab(s, "toggle_batch_selection", Rest(data, 2))
    ELSE IF StartsWith(data, <<"batch", "delete", "confirm">>)
    THEN IF LastIsInt(data) THEN batch_delete_shipments(s, c) ELSE Res(s, <<>>, TRUE)
    ELSE IF StartsWith(data, <<"broadcast">>)
    THEN Collab(s, "trigger_broadcast", Rest(data, 1))
    ELSE IF StartsWith(data, <<"notify">>)
    THEN IF get_shipment_details(s, Rest(data, 1)) = None
         THEN Res(s, Lookup(Rest(data, 1))
                     \o << <<"answer", "Shipment not found", Rest(data, 1)>>,
                           <<"warning", "Shipment not found", Rest(data, 1)>> >>, FALSE)
         ELSE Res(s, Lookup(Rest(data, 1)) \o QueueLength
                     \o << <<"edit", "Select notification type", Rest(data, 1)>> >>, FALSE)
    ELSE IF StartsWith(data, <<"send", "email">>)
    THEN After(QueueLength, Collab(s, "send_manual_email", Rest(data, 2)))
    ELSE IF StartsWith(data, <<"send", "webhook">>)
    THEN After(QueueLength, Collab(s, "send_manual_webhook", Rest(data, 2)))
    ELSE IF StartsWith(data, <<"toggle", "email", "menu">>)
    THEN MenuBranch(s, c, "toggle_email")
    ELSE IF StartsWith(data, <<"toggle", "email">>)
    THEN IF TnPageOk(data) THEN toggle_email_notifications(s, c, data[2])
         ELSE Res(s, <<>>, TRUE)
    ELSE IF StartsWith(data, <<"pause">>)
    THEN IF ~TnPageOk(data) THEN Res(s, <<>>, TRUE)
         ELSE LET r == pause_simulation_callback(s, c, data[2]) IN
              After(r.tr, invalidate_cache(r.s, data[2], f))
    ELSE IF StartsWith(data, <<"resume">>)
    THEN IF ~TnPageOk(data) THEN Res(s, <<>>, TRUE)
         ELSE LET r == resume_simulation_callback(s, c, data[2]) IN
              After(r.tr, invalidate_cache(r.s, data[2], f))
    ELSE IF StartsWith(data, <<"setspeed">>)
    THEN Register(s, c, "Enter speed", "handle_set_speed", Rest(data, 1))
    ELSE IF StartsWith(data, <<"getspeed">>)
    THEN Collab(s, "show_simulation_speed", Rest(data, 1))
    ELSE IF StartsWith(data, <<"bulk", "pause", "menu">>)
    THEN MenuBranch(s, c, "bulk_pause")
    ELSE IF StartsWith(data, <<"bulk", "resume", "menu">>)
    THEN MenuBranch(s, c, "bulk_resume")
    ELSE IF StartsWith(data, <<"bulk", "pause", "confirm">>)
    THEN IF LastIsInt(data) THEN bulk_pause_shipments(s, c) ELSE Res(s, <<>>, TRUE)
    ELSE IF StartsWith(data, <<"bulk", "resume", "confirm">>)
    THEN IF LastIsInt(data) THEN bulk_resume_shipments(s, c) ELSE Res(s, <<>>, TRUE)
    ELSE IF data = <<"generate", "id">>
    THEN After(<< <<"call", "generate_unique_id", "">> >>,
               Res(s, << <<"answer", "Generated ID", "">> >>, FALSE))
    ELSE IF data = <<"add">>
    THEN Register(s, c, "Enter shipment details", "handle_add_shipment", "")
    ELSE IF StartsWith(data, <<"set", "webhook">>)
    THEN Register(s, c, "Enter webhook URL", "handle_set_webhook", Rest(data, 2))
    ELSE IF StartsWith(data, <<"test", "webhook">>)
    THEN After(QueueLength, Collab(s, "send_manual_webhook", Rest(data, 2)))
    ELSE IF StartsWith(data, <<"list">>)
    THEN MenuBranch(s, c, "view")
    ELSE IF StartsWith(data, <<"delete", "menu">>)
    THEN MenuBranch(s, c, "delete")
    ELSE IF StartsWith(data, <<"batch", "delete", "menu">>)
    THEN MenuBranch(s, c, "batch_select")
    ELSE IF StartsWith(data, <<"broadcast", "menu">>)
    THEN MenuBranch(s, c, "broadcast")
    ELSE IF StartsWith(data, <<"setspeed", "menu">>)
    THEN MenuBranch(s, c, "setspeed")
    ELSE IF StartsWith(data, <<"getspeed", "menu">>)
    THEN MenuBranch(s, c, "getspeed")
    ELSE IF data = <<"settings">>
    THEN Res(s, << <<"edit", "Settings: Not implemented yet.", "">> >>, FALSE)
    ELSE IF data = <<"help">>
    THEN Res(s, << <<"edit", "Help Menu", "">> >>, FALSE)
    ELSE Res(s, <<>>, FALSE)

\* lines 603-606: answer_callback_query(Error), log, console.print(Panel(...))
handle_callback(s, c, f) ==
    LET r == callback_try(s, c, f) IN
    IF ~r.exc THEN r
    ELSE Res(r.s, r.tr \o << <<"answer", "Error", "">>, <<"error", "Error in callback handler", "">> >>,
             ~Panel_defined)

(***************************************************************************)
(* Next-step handlers                                                      *)
(***************************************************************************)
\* config.valid_statuses (bot.py:33), the two the model uses
VALID_STATUSES == {"In_Transit", "Delivered"}

\* utils.validate_webhook_url
validate_webhook_url(url) == url = "https://hook"

\* utils.save_shipment(tracking_number, status, '', delivery_location, ...):
\* stores the row, or raises for a tracking number or status it rejects
save_shipment(s, tn, status) ==
    IF tn \notin TrackingNumbers \/ status \notin VALID_STATUSES
    THEN Res(s, << <<"call", "save_shipment", tn>> >>, TRUE)
    ELSE Res([s EXCEPT !.db[tn] = status],
             << <<"call", "save_shipment", tn>>, <<"mutate", "save", tn>> >>, FALSE)

\* handle_add_shipment (bot.py:634-656); m.text holds the shlex.split parts
handle_add_shipment(s, m, f) ==
    IF Len(m.text) < 3 THEN Usage(s, Modules, "add")
    ELSE LET r == save_shipment(s, m.text[1], m.text[2]) IN
         After(Modules,
               HandlerExcept(IF r.exc THEN r
                             ELSE Res(r.s, r.tr \o << <<"reply", "Shipment added", m.text[1]>> >>,
                                      FALSE),
                             "Error adding shipment"))

\* handle_set_speed (bot.py:658-682)
handle_set_speed(s, m, tn, f) ==
    IF Len(m.text) < 1 THEN HandlerExcept(Res(s, <<>>, TRUE), "Error setting speed")
    ELSE HandlerExcept(speed_try(s, tn, m.text[1], f), "Error setting speed")

\* handle_set_webhook (bot.py:684-709)
handle_set_webhook(s, m, tn, f) ==
    LET url == IF Len(m.text) < 1 THEN "" ELSE m.text[1]
        query == << <<"call", "Shipment.query", tn>> >>
    IN  IF ~validate_webhook_url(url)
        THEN Res(s, Modules \o << <<"reply", "Invalid webhook URL.", "">>,
                                  <<"warning", "Invalid webhook URL", url>> >>, FALSE)
        ELSE IF get_shipment_details(s, tn) = None
        THEN After(Modules \o query, NotFound(s, tn))
        ELSE After(Modules,
                   HandlerExcept(
                       Finish(Res([s EXCEPT !.hook[tn] = url],
                                  query \o << <<"mutate", "webhook", tn>> >>, FALSE),
                              tn, f, "Webhook URL set"),
                       "Error setting webhook"))

\* the handler that register_next_step_handler registered, applied to m
next_step_handler(s, m, f) ==
    LET h == s.next[m.user]
        s1 == [s EXCEPT !.next[m.user] = <<>>]
    IN  CASE h[1] = "handle_add_shipment" -> handle_add_shipment(s1, m, f)
          [] h[1] = "handle_set_speed" -> handle_set_speed(s1, m, h[2], f)
          [] OTHER -> handle_set_webhook(s1, m, h[2], f)

(***************************************************************************)
(* Actions                                                                 *)
(***************************************************************************)
\* the primitives that rate_limit itself issues (lines 49-51)
WrapperPoints == {"incr", "expire"}

\* fault: the failure of one of the rate limiter's own primitives, if any
\* (of delete, for invalidate_cache called on its own)
Idle == [entry |-> "idle", user |-> "", inp |-> <<>>, fault |-> NoFault, wrapped |-> FALSE,
         cnt |-> 0, ran |-> FALSE, tr |-> <<>>, exc |-> FALSE]

Msg(u, args) == [user |-> u, text |-> args]

\* a slash command: the handler as decorated with @rate_limit
Wrapped(name, body, m, f) ==
    LET r == rate_limit(body, Backend, m, f) IN
    /\ last = Idle
    /\ count[m.user] < MaxCount
    /\ count' = r.count
    /\ ttl' = r.ttl
    /\ winAge' = r.winAge
    /\ reqs' = r.reqs
    /\ SetBackend(r.s)
    /\ last' = [entry |-> name, user |-> m.user, inp |-> m.text,
                fault |-> IF f.at \in WrapperPoints THEN f ELSE NoFault,
                wrapped |-> TRUE, cnt |-> r.cnt, ran |-> r.ran, tr |-> r.tr, exc |-> r.exc]
    /\ UNCHANGED <<redis_client, aside>>

\* a handler that is registered without @rate_limit
Unwrapped(name, r, u, inp) ==
    /\ last = Idle
    /\ SetBackend(r.s)
    /\ last' = [entry |-> name, user |-> u, inp |-> inp, fault |-> NoFault, wrapped |-> FALSE,
                cnt |-> 0, ran |-> TRUE, tr |-> r.tr, exc |-> r.exc]
    /\ UNCHANGED <<redis_client, count, ttl, winAge, reqs, aside>>

\* the faults of F that the primitives used by a handler can show
On(F, points) == {f \in F : f.at \in points \cup {"nowhere"}}

CmdMyId(I) ==
    \E u \in Users, f \in On(I.F, WrapperPoints) :
        Wrapped("/myid", get_my_id(Backend, Msg(u, <<>>), f), Msg(u, <<>>), f)

CmdMenu(I) ==
    \E u \in Users, f \in On(I.F, WrapperPoints) :
        Wrapped("/menu", send_menu(Backend, Msg(u, <<>>), f), Msg(u, <<>>), f)

CmdTrack(I) ==
    \E u \in Users, a \in I.Args, f \in On(I.F, WrapperPoints) :
        Wrapped("/track", track_shipment(Backend, Msg(u, a), f), Msg(u, a), f)

CmdStats(I) ==
    \E u \in Users, f \in On(I.F, WrapperPoints) :
        Wrapped("/stats", system_stats(Backend, Msg(u, <<>>), f), Msg(u, <<>>), f)

CmdNotify(I) ==
    \E u \in Users, a \in I.Args, f \in On(I.F, WrapperPoints) :
        Wrapped("/notify", manual_notification(Backend, Msg(u, a), f), Msg(u, a), f)

CmdSearch(I) ==
    \E u \in Users, a \in I.Queries, f \in On(I.F, WrapperPoints) :
        Wrapped("/search", search_command(Backend, Msg(u, a), f), Msg(u, a), f)

CmdBulkAction(I) ==
    \E u \in Users, f \in On(I.F, WrapperPoints) :
        Wrapped("/bulk_action", bulk_action_command(Backend, Msg(u, <<>>), f), Msg(u, <<>>), f)

CmdStop(I) ==
    \E u \in Users, a \in I.Args, f \in On(I.F, WrapperPoints \cup {"hget", "hset", "delete"}) :
        Wrapped("/stop", stop_simulation(Backend, Msg(u, a), f), Msg(u, a), f)

CmdContinue(I) ==
    \E u \in Users, a \in I.Args, f \in On(I.F, WrapperPoints \cup {"hget", "hdel", "delete"}) :
        Wrapped("/continue", continue_simulation(Backend, Msg(u, a), f), Msg(u, a), f)

CmdSetSpeed(I) ==
    \E u \in Users, a \in I.SpeedArgs, f \in On(I.F, WrapperPoints \cup {"hset", "delete"}) :
        Wrapped("/setspeed", set_simulation_speed(Backend, Msg(u, a), f), Msg(u, a), f)

\* an inline button is pressed; sel is the batch selection utils keeps
Callback(I) ==
    \E u \in Users, d \in I.Data :
      \E sel \in (IF d[1] \in {"batch", "bulk"} /\ "confirm" \in {d[i] : i \in 1..Len(d)}
                  THEN I.Sel ELSE {{}}),
         f \in On(I.F, IF d[1] \in {"pause", "resume"} THEN {"delete"} ELSE {}) :
        /\ Unwrapped("callback",
                     handle_callback(Backend, [user |-> u, data |-> d, sel |-> sel], f),
                     u, d)
        /\ Cardinality({v \in Users : next_step'[v] # <<>>}) <= MaxPending

\* the next message of the chat goes to the registered next-step handler
NextStep(I) ==
    \E u \in Users :
        /\ next_step[u] # <<>>
        /\ \E t \in I.Texts,
              f \in On(I.F, IF next_step[u][1] = "handle_add_shipment" THEN {}
                            ELSE IF next_step[u][1] = "handle_set_speed" THEN {"hset", "delete"}
                            ELSE {"delete"}) :
            Unwrapped(next_step[u][1], next_step_handler(Backend, Msg(u, t), f), u, t)

\* the web application reads a shipment through the cache and fills the entry
CacheFill ==
    /\ last = Idle
    /\ redis_client
    /\ \E t \in TrackingNumbers :
          /\ shipments[t] # "absent"
          /\ cache_key(t) \notin cache
          /\ cache' = cache \cup {cache_key(t)}
    /\ UNCHANGED <<redis_client, count, ttl, winAge, reqs, paused_simulations,
                   sim_speed_multipliers, shipments, webhook_url, next_step, last, aside>>

\* invalidate_cache called on its own, once or twice in a row for the same
\* tracking number; the delete may fail.  last.inp lists the calls made and
\* last.fault is what delete does.
Invalidate ==
    /\ last = Idle
    /\ \E tn \in TrackingNumbers, f \in FaultsAt({"delete"}), n \in 1..2 :
          LET r1 == invalidate_cache(Backend, tn, f)
              r  == IF n = 1 \/ r1.exc THEN r1 ELSE After(r1.tr, invalidate_cache(r1.s, tn, f))
          IN  /\ SetBackend(r.s)
              /\ last' = [entry |-> "invalidate_cache", user |-> "",
                          inp |-> [i \in 1..n |-> tn], fault |-> f, wrapped |-> FALSE,
                          cnt |-> 0, ran |-> TRUE, tr |-> r.tr, exc |-> r.exc]
    /\ UNCHANGED <<redis_client, count, ttl, winAge, reqs, aside>>

\* the rate limiter's part of the state
Limiter == [count |-> count, ttl |-> ttl, winAge |-> winAge, reqs |-> reqs]

SetLimiter(L) ==
    /\ count' = L.count
    /\ ttl' = L.ttl
    /\ winAge' = L.winAge
    /\ reqs' = L.reqs

\* one second passes: redis expires the keys whose time has come
TickL(L) ==
    LET age == [u \in Users |-> IF L.winAge[u] < RATE_LIMIT_WINDOW THEN L.winAge[u] + 1
                                 ELSE L.winAge[u]]
    IN  [count |-> [u \in Users |-> IF L.ttl[u] = 1 THEN 0 ELSE L.count[u]],
         ttl |-> [u \in Users |-> IF L.ttl[u] = NoTTL \/ L.ttl[u] = 1 THEN NoTTL
                                  ELSE L.ttl[u] - 1],
         winAge |-> age,
         reqs |-> [u \in Users |-> IF age[u] = RATE_LIMIT_WINDOW THEN 0 ELSE L.reqs[u]]]

RECURSIVE Ticks(_, _)
Ticks(L, n) == IF n = 0 THEN L ELSE Ticks(TickL(L), n - 1)

Tick ==
    /\ last = Idle
    /\ \E u \in Users : count[u] > 0 \/ winAge[u] < RATE_LIMIT_WINDOW
    /\ SetLimiter(TickL(Limiter))
    /\ UNCHANGED <<redis_client, paused_simulations, sim_speed_multipliers, shipments,
                   webhook_url, cache, next_step, last, aside>>

\* the handler has returned to the polling loop (bot.infinity_polling, line 713)
Return ==
    /\ last # Idle
    /\ last' = Idle
    /\ UNCHANGED <<redis_client, count, ttl, winAge, reqs, paused_simulations,
                   sim_speed_multipliers, shipments, webhook_url, cache, next_step, aside>>

\* the handler has returned and no request arrives for a whole window:
\* Return followed by RATE_LIMIT_WINDOW Ticks
ReturnQuiet ==
    /\ last # Idle
    /\ last' = Idle
    /\ SetLimiter(Ticks(Limiter, RATE_LIMIT_WINDOW))
    /\ UNCHANGED <<redis_client, paused_simulations, sim_speed_multipliers, shipments,
                   webhook_url, cache, next_step, aside>>

(***************************************************************************)
(* rate_limit.wrapper, one store primitive at a time (bot.py:49-56): the   *)
(* worker threads of the bot run the wrappers of several requests at       *)
(* once.  incr and expire are each atomic in the store; the comparisons    *)
(* of lines 50 and 52 are local to the thread.                             *)
(***************************************************************************)
NoRequest == [user |-> "", pc |-> "idle", cnt |-> 0, gen |-> 0]

\* line 49: count = redis_client.incr(key); the incr that finds no key
\* creates it, without expiry, and so opens a generation of the key
WrapperIncr(w, u) ==
    LET c == count[u] + 1
        adm == IF c = 1 THEN Append(admitted[u], 0) ELSE admitted[u]
    IN  /\ threads[w] = NoRequest
        /\ redis_client
        /\ count[u] < MaxCount
        /\ c = 1 => Len(admitted[u]) < MaxGen
        /\ count' = [count EXCEPT ![u] = c]
        /\ admitted' = [admitted EXCEPT ![u] = adm]
        /\ threads' = [threads EXCEPT ![w] =
                           [user |-> u, pc |-> "incremented", cnt |-> c, gen |-> Len(adm)]]
        /\ UNCHANGED <<redis_client, ttl, winAge, reqs, paused_simulations,
                       sim_speed_multipliers, shipments, webhook_url, cache, next_step, last,
                       reading, cached>>

\* lines 50-51: if count == 1: redis_client.expire(key, RATE_LIMIT_WINDOW);
\* EXPIRE does nothing when the key is gone
WrapperExpire(w) ==
    LET u == threads[w].user IN
    /\ threads[w].pc = "incremented"
    /\ threads[w].cnt = 1
    /\ ttl' = IF count[u] > 0 THEN [ttl EXCEPT ![u] = RATE_LIMIT_WINDOW] ELSE ttl
    /\ threads' = [threads EXCEPT ![w].pc = "expire set"]
    /\ UNCHANGED <<redis_client, count, winAge, reqs, paused_simulations,
                   sim_speed_multipliers, shipments, webhook_url, cache, next_step, last,
                   admitted, reading, cached>>

\* lines 52-56: reject, or run func(message) to its end
WrapperDecide(w) ==
    LET u == threads[w].user
        g == threads[w].gen
    IN  /\ \/ threads[w].pc = "expire set"
           \/ threads[w].pc = "incremented" /\ threads[w].cnt # 1
        /\ admitted' = IF Exceeds(threads[w].cnt) THEN admitted
                       ELSE [admitted EXCEPT ![u][g] = @ + 1]
        /\ threads' = [threads EXCEPT ![w] = NoRequest]
        /\ UNCHANGED <<redis_client, count, ttl, winAge, reqs, paused_simulations,
                       sim_speed_multipliers, shipments, webhook_url, cache, next_step, last,
                       reading, cached>>

\* one second passes while requests are in the wrapper
TickThreads ==
    /\ \E u \in Users : count[u] > 0
    /\ count' = TickL(Limiter).count
    /\ ttl' = TickL(Limiter).ttl
    /\ UNCHANGED <<redis_client, winAge, reqs, paused_simulations, sim_speed_multipliers,
                   shipments, webhook_url, cache, next_step, last, aside>>

(***************************************************************************)
(* The read-through reader of the cache (the web application): on a miss   *)
(* it reads the shipment's backing state, then fills shipment:<tn> with    *)
(* what it read.  The two steps interleave with the bot's handlers.        *)
(***************************************************************************)
\* the state of a shipment that a reader sees and caches; NoValue: nothing
\* read (a shipment that is read has a row, so its status is not "absent")
NoValue == [status |-> "absent", paused |-> FALSE, speed |-> None, hook |-> None]
Snapshot(t) == [status |-> shipments[t], paused |-> paused_simulations[t],
                speed |-> sim_speed_multipliers[t], hook |-> webhook_url[t]]

ReaderMiss ==
    /\ last = Idle
    /\ redis_client
    /\ \E t \in TrackingNumbers :
          /\ shipments[t] # "absent"
          /\ cache_key(t) \notin cache
          /\ reading[t] = NoValue
          /\ reading' = [reading EXCEPT ![t] = Snapshot(t)]
    /\ UNCHANGED <<redis_client, count, ttl, winAge, reqs, paused_simulations,
                   sim_speed_multipliers, shipments, webhook_url, cache, next_step, last,
                   threads, admitted, cached>>

ReaderFill ==
    /\ last = Idle
    /\ \E t \in TrackingNumbers :
          /\ reading[t] # NoValue
          /\ cache' = cache \cup {cache_key(t)}
          /\ cached' = [cached EXCEPT ![t] = reading[t]]
          /\ reading' = [reading EXCEPT ![t] = NoValue]
    /\ UNCHANGED <<redis_client, count, ttl, winAge, reqs, paused_simulations,
                   sim_speed_multipliers, shipments, webhook_url, next_step, last,
                   threads, admitted>>

(***************************************************************************)
(* Inputs                                                                  *)
(***************************************************************************)
TnArgs == {<<>>, <<"bad id">>} \cup {<<t>> : t \in TrackingNumbers}
SpeedTexts == {"2", "50", "abc"}
AllSpeedArgs == {<<>>, <<"T1">>, <<"bad id", "2">>}
                  \cup {<<t, v>> : t \in TrackingNumbers, v \in SpeedTexts}
AllQueries == {<<>>, <<"all">>, <<"T2">>}
Pages == {"1"}

AllData ==
    {<<"help">>, <<"settings">>, <<"add">>, <<"generate", "id">>, <<"unknown">>}
    \cup {<<p, "page", n>> : p \in {"menu"}, n \in Pages}
    \cup {<<p, t, n>> : p \in {"view", "delete", "pause", "resume"},
                         t \in TrackingNumbers, n \in Pages}
    \cup {<<p, t>> : p \in {"broadcast", "notify", "setspeed", "getspeed"},
                      t \in TrackingNumbers}
    \cup {<<p, q, t>> : p \in {"send"}, q \in {"email", "webhook"}, t \in TrackingNumbers}
    \cup {<<p, "webhook", t>> : p \in {"set", "test"}, t \in TrackingNumbers}
    \cup {<<"batch", "select", t, n>> : t \in TrackingNumbers, n \in Pages}
    \cup {<<"toggle", "email", t, n>> : t \in TrackingNumbers, n \in Pages}
    \cup {<<"bulk", k, t, n>> : k \in {"pause", "resume"}, t \in TrackingNumbers, n \in Pages}
    \cup {<<"batch", "delete", k, n>> : k \in {"confirm", "menu"}, n \in Pages}
    \cup {<<"bulk", k, j, n>> : k \in {"pause", "resume"}, j \in {"confirm", "menu"},
                                 n \in Pages}
    \cup {<<p, "menu", n>> : p \in {"delete", "broadcast", "setspeed", "getspeed"},
                              n \in Pages}
    \cup {<<"toggle", "email", "menu", n>> : n \in Pages}
    \cup {<<"list", k, n>> : k \in {"active"}, n \in Pages}

AllTexts ==
    {<<"2">>, <<"50">>, <<"abc">>, <<"https://hook">>, <<"/myid">>}
    \cup {<<"T1", st, "Lagos">> : st \in {"In_Transit", "Delivered", "bogus"}}

\* every input of the model; T2 is a well-formed tracking number that no
\* shipment has
AllInputs ==
    [F |-> FaultsAt({"hget", "hset", "hdel", "delete"}),
     Args |-> TnArgs, SpeedArgs |-> AllSpeedArgs, Queries |-> AllQueries,
     Data |-> AllData, Sel |-> SUBSET TrackingNumbers, Texts |-> AllTexts]

\* the inputs that leave the shipments alone, under faults of the rate
\* limiter's own primitives
LimiterInputs ==
    [F |-> FaultsAt(WrapperPoints), Args |-> {<<>>}, SpeedArgs |-> {<<>>}, Queries |-> {<<>>},
     Data |-> {<<"add">>}, Sel |-> {{}}, Texts |-> {<<"/myid">>}]

\* the requests that change a shipment's pause flag or speed and
\* invalidate its cache entry, the store working
ReaderInputs ==
    [F |-> {NoFault}, Args |-> {<<"T1">>}, SpeedArgs |-> {<<"T1", "2">>}, Queries |-> {<<>>},
     Data |-> {<<"pause", "T1", "1">>, <<"resume", "T1", "1">>, <<"setspeed", "T1">>},
     Sel |-> {{}}, Texts |-> {<<"2">>}]

\* speeds at, inside and outside the bounds, texts that are no number and
\* the one that float() reads as not-a-number; an accepted and a refused URL
ValidateSpeeds == {"0.1", "2", "10", "0", "50", "nan", "abc"}
ValidateInputs ==
    [F |-> {NoFault}, Args |-> {<<"T1">>},
     SpeedArgs |-> {<<"T1", v>> : v \in ValidateSpeeds}, Queries |-> {<<>>},
     Data |-> {<<"setspeed", "T1">>, <<"set", "webhook", "T1">>}, Sel |-> {{}},
     Texts |-> {<<v>> : v \in ValidateSpeeds} \cup {<<"https://hook">>, <<"ftp://hook">>}]

\* the navigation buttons.  PageSize is the 5 of `total > 5` and
\* `page * 5 < total` (lines 620, 624)
PageSize == 5
NavPages == 1..2
Totals == {0, 5, 6, 11}
MenuPrefixes == {"view", "delete", "batch_select", "broadcast", "setspeed", "getspeed",
                 "bulk_pause", "bulk_resume", "toggle_email"}

\* the pieces between the underscores of f"{prefix}"
Pieces(prefix) ==
    CASE prefix = "batch_select" -> <<"batch", "select">>
      [] prefix = "bulk_pause" -> <<"bulk", "pause">>
      [] prefix = "bulk_resume" -> <<"bulk", "resume">>
      [] prefix = "toggle_email" -> <<"toggle", "email">>
      [] OTHER -> <<prefix>>

\* f"{page}"
PageStr(n) == CASE n = 0 -> "0" [] n = 1 -> "1" [] n = 2 -> "2" [] n = 3 -> "3" [] OTHER -> "?"

\* the Previous and Next buttons show_shipment_menu renders on page `page`
\* of `total` shipments (lines 620-626): where each leads and its data
NavButtons(prefix, page, total) ==
    IF total > PageSize
    THEN (IF page > 1
          THEN {[to |-> page - 1, data |-> Pieces(prefix) \o <<"menu", PageStr(page - 1)>>]}
          ELSE {})
         \cup (IF page * PageSize < total
               THEN {[to |-> page + 1, data |-> Pieces(prefix) \o <<"menu", PageStr(page + 1)>>]}
               ELSE {})
    ELSE {}

\* the Next button /search renders under its first page (lines 269-270)
SearchNext(query, total) ==
    IF total > PageSize THEN {<<"search", "page", query, "2">>} ELSE {}

NavData ==
    {b.data : b \in UNION {NavButtons(p, n, t) : p \in MenuPrefixes, n \in NavPages,
                                                 t \in Totals}}
    \cup UNION {SearchNext("all", t) : t \in Totals}
NavInputs ==
    [F |-> {NoFault}, Args |-> {<<"T1">>}, SpeedArgs |-> {<<"T1", "2">>},
     Queries |-> {<<"all">>}, Data |-> NavData, Sel |-> {{}}, Texts |-> {<<"2">>}]

(***************************************************************************)
(* Specifications                                                          *)
(***************************************************************************)
Init ==
    /\ redis_client \in BOOLEAN
    /\ count = [u \in Users |-> 0]
    /\ ttl = [u \in Users |-> NoTTL]
    /\ winAge = [u \in Users |-> RATE_LIMIT_WINDOW]
    /\ reqs = [u \in Users |-> 0]
    /\ paused_simulations = [t \in TrackingNumbers |-> FALSE]
    /\ sim_speed_multipliers = [t \in TrackingNumbers |-> None]
    /\ shipments = [t \in TrackingNumbers |-> IF t = "T1" THEN "In_Transit" ELSE "absent"]
    /\ webhook_url = [t \in TrackingNumbers |-> None]
    /\ cache = {}
    /\ next_step = [u \in Users |-> <<>>]
    /\ last = Idle
    /\ threads = [w \in Workers |-> NoRequest]
    /\ admitted = [u \in Users |-> <<>>]
    /\ reading = [t \in TrackingNumbers |-> NoValue]
    /\ cached = [t \in TrackingNumbers |-> NoValue]

Handlers(I) ==
    \/ CmdMyId(I)
    \/ CmdMenu(I)
    \/ CmdTrack(I)
    \/ CmdStats(I)
    \/ CmdNotify(I)
    \/ CmdSearch(I)
    \/ CmdBulkAction(I)
    \/ CmdStop(I)
    \/ CmdContinue(I)
    \/ CmdSetSpeed(I)
    \/ Callback(I)
    \/ NextStep(I)

\* the handlers on every input and under faults of the primitives their
\* bodies use; the rate limiter's own primitives work and requests arrive
\* at least a window apart
Next == Handlers(AllInputs) \/ CacheFill \/ ReturnQuiet
Spec == Init /\ [][Next]_vars

\* the rate limiter: requests at any pace, under faults of incr and expire
NextLimiter == Handlers(LimiterInputs) \/ Tick \/ Return
SpecLimiter == Init /\ [][NextLimiter]_vars

\* the rate limiter with the counter store available: redis_client is a
\* client and no primitive fails
InitAvail == Init /\ redis_client
NextAvail == Handlers([LimiterInputs EXCEPT !.F = {NoFault}]) \/ Tick \/ Return
SpecAvail == InitAvail /\ [][NextAvail]_vars

\* the rate limiter under requests that interleave at the store primitives,
\* the store working
NextThreads ==
    \/ \E w \in Workers, u \in Users : WrapperIncr(w, u)
    \/ \E w \in Workers : WrapperExpire(w)
    \/ \E w \in Workers : WrapperDecide(w)
    \/ TickThreads
SpecThreads == InitAvail /\ [][NextThreads]_vars

\* mutating handlers next to a read-through reader of the cache
NextReader == Handlers(ReaderInputs) \/ ReaderMiss \/ ReaderFill \/ ReturnQuiet
SpecReader == InitAvail /\ [][NextReader]_vars

\* invalidate_cache called on its own, next to the handlers that fill the
\* rate-limit counters and the simulation hashes; every shipment exists
InitCache ==
    /\ redis_client \in BOOLEAN
    /\ count = [u \in Users |-> 0]
    /\ ttl = [u \in Users |-> NoTTL]
    /\ winAge = [u \in Users |-> RATE_LIMIT_WINDOW]
    /\ reqs = [u \in Users |-> 0]
    /\ paused_simulations = [t \in TrackingNumbers |-> FALSE]
    /\ sim_speed_multipliers = [t \in TrackingNumbers |-> None]
    /\ shipments = [t \in TrackingNumbers |-> "In_Transit"]
    /\ webhook_url = [t \in TrackingNumbers |-> None]
    /\ cache = {}
    /\ next_step = [u \in Users |-> <<>>]
    /\ last = Idle
    /\ threads = [w \in Workers |-> NoRequest]
    /\ admitted = [u \in Users |-> <<>>]
    /\ reading = [t \in TrackingNumbers |-> NoValue]
    /\ cached = [t \in TrackingNumbers |-> NoValue]
NextCache == Handlers(ReaderInputs) \/ CacheFill \/ Invalidate \/ Return
SpecCache == InitCache /\ [][NextCache]_vars

\* the handlers that set a speed or a webhook URL, on speeds and URLs of
\* every kind, the store working
NextValidate == Handlers(ValidateInputs) \/ ReturnQuiet
SpecValidate == Init /\ [][NextValidate]_vars

\* the navigation buttons of the menus and of /search, pressed
NextNav == Handlers(NavInputs) \/ ReturnQuiet
SpecNav == Init /\ [][NextNav]_vars

(***************************************************************************)
(* Properties                                                              *)
(*                                                                         *)
(* `last` is the request that has just been handled (Idle when none is):   *)
(* a state predicate on `last` speaks of every request of every run.       *)
(***************************************************************************)
Handled == last # Idle
HasEvent(tr, e) == \E i \in DOMAIN tr : tr[i] = e
HasKind(tr, kinds) == \E i \in DOMAIN tr : tr[i][1] \in kinds
Rejection(u) == << <<"reply", "Rate limit exceeded. Please try again later.", "">>,
                   <<"warning", "Rate limit exceeded", u>> >>

\* C1: with the counter store available, each of the first RATE_LIMIT_MAX
\* requests a user makes in a window of RATE_LIMIT_WINDOW seconds is allowed:
\* the handler body is invoked.
C1_FirstRequestsAllowed ==
    (last.wrapped /\ reqs[last.user] \in 1..RATE_LIMIT_MAX) => last.ran

\* the last request the limit admits, made when the window is about to close
C1_Witness ==
    /\ last.wrapped /\ last.ran
    /\ reqs[last.user] = RATE_LIMIT_MAX
    /\ winAge[last.user] = RATE_LIMIT_WINDOW - 1

\* C2: a request whose post-increment counter exceeds RATE_LIMIT_MAX is
\* rejected: the body is not invoked, the requester gets the rate-limit
\* message and a warning naming the user id is logged.
C2_ExcessRejected ==
    (last.wrapped /\ last.cnt > RATE_LIMIT_MAX) =>
        /\ ~last.ran
        /\ last.tr = Rejection(last.user)
        /\ ~last.exc

\* one request more than the limit within the window
C2_Witness ==
    /\ last.wrapped /\ ~last.ran
    /\ last.cnt = RATE_LIMIT_MAX + 1
    /\ reqs[last.user] = RATE_LIMIT_MAX + 1
    /\ last.tr = Rejection(last.user)

\* C3: once RATE_LIMIT_WINDOW seconds have passed since the first request of
\* a window, the user's next request sees a counter of 1 and is allowed.
C3_WindowReset ==
    [][(/\ last = Idle /\ last'.wrapped
        /\ redis_client /\ last'.fault = NoFault
        /\ winAge[last'.user] = RATE_LIMIT_WINDOW)
       => (last'.cnt = 1 /\ last'.ran)]_vars

\* C4: every counter key that exists carries an expiry, also when the
\* expire call was the one that failed.
C4_CounterExpires ==
    \A u \in Users : count[u] > 0 => ttl[u] \in 1..RATE_LIMIT_WINDOW

\* the store failed this request: there is no client, or the primitive at
\* last.fault was issued and did not succeed
StoreFailed ==
    \/ ~redis_client
    \/ last.fault.at = "incr"
    \/ last.fault.at = "expire" /\ last.cnt = 1

\* C5: when the counter store is unavailable (no client, or incr or expire
\* fails) the request is allowed, the handler executes, and a failed call
\* is logged.
C5_FailOpen ==
    (last.wrapped /\ StoreFailed) =>
        /\ last.ran
        /\ redis_client => HasKind(last.tr, {"error", "warning"})

\* the handlers of pause, resume, speed change and webhook change
ChangesSimulation ==
    \/ last.entry \in {"/stop", "/continue", "/setspeed", "handle_set_speed",
                       "handle_set_webhook"}
    \/ last.entry = "callback" /\ last.inp[1] \in {"pause", "resume"}

SuccessTexts == {"Simulation paused", "Simulation resumed", "Simulation speed set",
                 "Webhook URL set"}
ReportsSuccess(e) == e[1] \in {"reply", "answer"} /\ e[2] \in SuccessTexts

\* C6: on every path of pause, resume, speed change and webhook change that
\* reports success, the cache entry shipment:<tn> is invalidated after the
\* mutation and before the success message is sent.
C6_InvalidateBeforeReport ==
    (Handled /\ ChangesSimulation) =>
        \A k \in DOMAIN last.tr : ReportsSuccess(last.tr[k]) =>
            \A i \in 1..(k - 1) :
                (last.tr[i][1] = "mutate" /\ last.tr[i][3] = last.tr[k][3]) =>
                    \E j \in (i + 1)..(k - 1) : last.tr[j] = Invoked(last.tr[k][3])[1]

\* C7: every handler path that mutates a shipment invokes invalidate_cache
\* for each affected tracking number afterwards, and when the handler
\* finishes the cache holds no entry for that shipment.
C7_MutationInvalidates ==
    Handled =>
        \A i \in DOMAIN last.tr : last.tr[i][1] = "mutate" =>
            /\ \E j \in (i + 1)..Len(last.tr) : last.tr[j] = Invoked(last.tr[i][3])[1]
            /\ cache_key(last.tr[i][3]) \notin cache

PrivilegedCommands == {"/menu", "/track", "/stats", "/notify", "/search", "/bulk_action",
                       "/stop", "/continue", "/setspeed"}
BackendCalls == {"call", "redis", "mutate", "invalidate", "register"}

\* C8: a user who is not an admin and sends /start, /menu, /track, /stats,
\* /notify, /search, /bulk_action, /stop, /continue or /setspeed receives
\* "Access denied." and the handler makes no backend call: no lookup, search,
\* store access, cache invalidation or notification.
C8_NonAdminDenied ==
    (last.wrapped /\ last.ran /\ last.entry \in PrivilegedCommands /\ ~is_admin(last.user)) =>
        /\ HasEvent(last.tr, <<"reply", "Access denied.", "">>)
        /\ ~HasKind(last.tr, BackendCalls)
        /\ ~last.exc

\* a non-admin asks to pause a shipment that exists and is refused
C8_Witness ==
    /\ last.entry = "/stop" /\ last.inp = <<"T1">> /\ last.ran
    /\ ~is_admin(last.user)
    /\ HasEvent(last.tr, <<"reply", "Access denied.", "">>)
    /\ ~paused_simulations["T1"]

\* C9: no shipment, pause, speed or webhook state changes on behalf of a
\* user who is not an admin, whether the request is a button press or the
\* follow-up message of a next-step handler.
C9_NonAdminNoChange ==
    (Handled /\ ~last.wrapped /\ ~is_admin(last.user)) => ~HasKind(last.tr, {"mutate"})

SlashCommands == {"/myid"} \cup PrivilegedCommands

\* C10 as claimed: at every entry point (slash commands, handle_callback,
\* next-step handlers) the body runs only after the user's counter was
\* incremented for the request and found to be at most RATE_LIMIT_MAX.
C10_EveryEntryGuarded ==
    (Handled /\ last.ran) =>
        (last.cnt \in 1..RATE_LIMIT_MAX /\ count[last.user] = last.cnt)

\* C10 as amended: with a store client configured, the body of a slash
\* command runs only after the user's counter was incremented for the
\* request and found to be at most RATE_LIMIT_MAX.
C10_CommandsGuarded ==
    (Handled /\ last.entry \in SlashCommands /\ last.ran /\ redis_client) =>
        (last.cnt \in 1..RATE_LIMIT_MAX /\ count[last.user] = last.cnt)

\* a command is admitted with the counter at the limit
C10_Witness ==
    /\ last.entry \in SlashCommands /\ last.ran /\ redis_client
    /\ last.cnt = RATE_LIMIT_MAX
    /\ count[last.user] = RATE_LIMIT_MAX

\* C11: when requests of one user interleave at the store primitives, at
\* most RATE_LIMIT_MAX handler bodies run per window of the user's counter
\* (a generation of the key), and a counter without expiry is always one
\* whose creating request is about to set the expiry.
C11_InterleavedLimit ==
    \A u \in Users :
        /\ \A g \in DOMAIN admitted[u] : admitted[u][g] <= RATE_LIMIT_MAX
        /\ (count[u] > 0 /\ ttl[u] = NoTTL) =>
              \E w \in Workers : /\ threads[w].user = u
                                 /\ threads[w].pc = "incremented"
                                 /\ threads[w].cnt = 1

\* a later request of the user has run its body and the window is full
\* while the request that created the key has not set the expiry yet
C11_Witness ==
    \E u \in Users, w \in Workers :
        /\ threads[w].user = u /\ threads[w].pc = "incremented" /\ threads[w].cnt = 1
        /\ ttl[u] = NoTTL
        /\ count[u] > RATE_LIMIT_MAX
        /\ admitted[u][Len(admitted[u])] = RATE_LIMIT_MAX - 1

\* C12: no stale reads: the cache never holds a value of a shipment that
\* differs from the shipment's state once the mutating handler has
\* completed, whatever the interleaving with a read-through reader.
C12_NoStaleEntry ==
    \A t \in TrackingNumbers : cache_key(t) \in cache => cached[t] = Snapshot(t)

\* C13: invalidate_cache never raises to its caller, whatever the store's
\* delete does (succeeds, finds nothing to delete, or fails): it returns
\* normally, and a delete that raised has been logged.
C13_InvalidateNeverRaises ==
    (Handled /\ last.entry = "invalidate_cache") =>
        /\ ~last.exc
        /\ (last.fault.how = "raise" /\ redis_client => HasKind(last.tr, {"error"}))

\* C14: invalidation is idempotent: when delete works, invalidating a
\* tracking number whose key has no entry succeeds without error and leaves
\* the store as it was, and invalidating the same tracking number twice in
\* a row leaves the state that invalidating it once leaves.
C14_Idempotent ==
    [][(last = Idle /\ last'.entry = "invalidate_cache" /\ last'.fault = NoFault) =>
          LET tn == last'.inp[1]
              once == invalidate_cache(Backend, tn, NoFault)
          IN  /\ ~last'.exc
              /\ ~HasKind(last'.tr, {"error"})
              /\ Backend' = once.s
              /\ (cache_key(tn) \notin cache => Backend' = Backend)]_vars

C14_Witness ==
    /\ last.entry = "invalidate_cache"
    /\ last.fault = NoFault
    /\ redis_client
    /\ Len(last.inp) = 2
    /\ Cardinality({i \in DOMAIN last.tr : last.tr[i][1] = "redis"}) = 2
    /\ ~last.exc
    /\ cache # {}

\* C15: invalidate_cache(tn) deletes the entry with key "shipment:" + tn and
\* nothing else: the entries of other tracking numbers, the rate-limit
\* counters, paused_simulations and sim_speed_multipliers stay as they
\* were, and distinct tracking numbers have distinct keys.
C15_DeletesOnlyItsKey ==
    [][(last = Idle /\ last'.entry = "invalidate_cache") =>
          LET tn == last'.inp[1] IN
          /\ cache' = IF redis_client /\ last'.fault = NoFault
                      THEN cache \ {cache_key(tn)} ELSE cache
          /\ \A t \in TrackingNumbers \ {tn} : cache_key(t) \in cache <=> cache_key(t) \in cache'
          /\ UNCHANGED <<count, ttl, paused_simulations, sim_speed_multipliers>>
          /\ \A t1, t2 \in TrackingNumbers : cache_key(t1) = cache_key(t2) => t1 = t2]_vars

C15_Witness ==
    /\ last.entry = "invalidate_cache"
    /\ last.inp[1] = "T1"
    /\ last.fault = NoFault
    /\ redis_client
    /\ cache = {cache_key("T2")}
    /\ \E u \in Users : count[u] > 0
    /\ paused_simulations["T1"]
    /\ sim_speed_multipliers["T1"] # None

\* what the wrapper would decide for a request of user u arriving now, the
\* store working: TRUE when the handler would run
Decision(u) == rate_limit(Res(Backend, <<>>, FALSE), Backend, Msg(u, <<>>), NoFault).ran

\* C16: the rate limiter keeps users apart: a request by user A reads and
\* changes only the counter of A's key and never alters another user's
\* counter, its expiry, or the decision that user's next request gets.
C16_PerUserIsolation ==
    [][(last = Idle /\ last'.wrapped) =>
          \A b \in Users \ {last'.user} :
              /\ count'[b] = count[b]
              /\ ttl'[b] = ttl[b]
              /\ Decision(b)' = Decision(b)]_vars

C16_Witness ==
    /\ last.wrapped
    /\ last.user = "u1"
    /\ last.cnt = 1
    /\ last.ran
    /\ count["u2"] = RATE_LIMIT_MAX
    /\ ttl["u2"] # NoTTL
    /\ ttl["u1"] = RATE_LIMIT_WINDOW
    /\ Decision("u1")
    /\ ~Decision("u2")

\* a text that float() turns into a speed of the accepted range
ValidSpeed(tok) == ParseFloat(tok) \in 1..100

\* the tracking number the request of this step names (for the next-step
\* handlers, the one bound when the handler was registered), or None
NamedShipment ==
    LET e == last'.entry
        a == last'.inp
    IN  CASE e \in {"/track", "/notify", "/stop", "/continue"} /\ Len(a) >= 1 ->
               sanitize_tracking_number(a[1])
          [] e = "/setspeed" /\ Len(a) >= 2 /\ ValidSpeed(a[2]) ->
               sanitize_tracking_number(a[1])
          [] e = "handle_set_speed" /\ Len(a) >= 1 /\ ValidSpeed(a[1]) ->
               next_step[last'.user][2]
          [] e = "handle_set_webhook" /\ Len(a) >= 1 /\ validate_webhook_url(a[1]) ->
               next_step[last'.user][2]
          [] OTHER -> None

\* C17: a request of an admin to /track, /notify, /stop, /continue,
\* /setspeed, handle_set_speed or handle_set_webhook that names a
\* well-formed tracking number of no shipment, its other arguments valid,
\* is answered "Shipment ... not found" and changes no pause flag, speed,
\* webhook URL or cache entry.
C17_NotFound ==
    [][(/\ last = Idle
        /\ last' # Idle
        /\ is_admin(last'.user)
        /\ last'.ran
        /\ NamedShipment \in TrackingNumbers
        /\ shipments[NamedShipment] = "absent") =>
           /\ HasEvent(last'.tr, <<"reply", "Shipment not found", NamedShipment>>)
           /\ ~HasKind(last'.tr, {"mutate", "invalidate"})
           /\ ~last'.exc
           /\ UNCHANGED <<paused_simulations, sim_speed_multipliers, webhook_url, cache>>]_vars

\* the speed text of the request of this step, or None when the step is
\* not a /setspeed of an admin or a follow-up to "Enter speed" that names a
\* well-formed tracking number
SpeedText ==
    LET e == last'.entry
        a == last'.inp
    IN  CASE e = "/setspeed" /\ is_admin(last'.user) /\ Len(a) >= 2
               /\ sanitize_tracking_number(a[1]) # None -> a[2]
          [] e = "handle_set_speed" /\ Len(a) >= 1 -> a[1]
          [] OTHER -> None

\* C18: /setspeed and handle_set_speed write a speed only when
\* 0.1 <= speed <= 10.0 and otherwise reply "Speed must be between 0.1 and
\* 10.0." and write nothing; handle_set_webhook changes a webhook URL only
\* when validate_webhook_url accepts it; so every stored speed lies in
\* [0.1, 10.0].
C18_Validated ==
    [][(last = Idle /\ last' # Idle) =>
          /\ (SpeedText # None /\ ParseFloat(SpeedText) # NaF /\ ~ValidSpeed(SpeedText)) =>
                 /\ HasEvent(last'.tr, <<"reply", "Speed must be between 0.1 and 10.0.", "">>)
                 /\ UNCHANGED sim_speed_multipliers
          /\ (last'.entry = "handle_set_webhook" /\ webhook_url' # webhook_url) =>
                 (Len(last'.inp) >= 1 /\ validate_webhook_url(last'.inp[1]))
          /\ \A t \in TrackingNumbers :
                 sim_speed_multipliers'[t] # None =>
                     \E v \in 1..100 : sim_speed_multipliers'[t] = StrOfFloat(v)]_vars

\* the request handled last lacks arguments: /track, /notify, /search, /stop
\* or /continue without one, /setspeed with fewer than two, a reply to the
\* add-shipment prompt with fewer than three tokens
Malformed ==
    \/ last.entry \in {"/track", "/notify", "/search", "/stop", "/continue"} /\ Len(last.inp) < 1
    \/ last.entry = "/setspeed" /\ Len(last.inp) < 2
    \/ last.entry = "handle_add_shipment" /\ Len(last.inp) < 3

C20_NoEscape ==
    (Handled /\ (last.wrapped \/ last.entry = "callback")) => ~last.exc

\* the request handled last ended in a failure: an exception left the
\* handler, or the requester was sent an error message, and no success
\* was reported
ReportsError ==
    /\ \/ last.exc
       \/ HasEvent(last.tr, <<"reply", "Error", "">>)
       \/ HasEvent(last.tr, <<"answer", "Error", "">>)
    /\ \A i \in DOMAIN last.tr : ~ReportsSuccess(last.tr[i])

\* C21: failures are local to one request: when the handling of a mutating
\* request fails (an error is reported instead of success), the pause
\* flags, the speed multipliers and the stored webhook URLs are as they were
\* before the request.
C21_FailureLocal ==
    [][(last = Idle /\ ChangesSimulation' /\ ReportsError') =>
          UNCHANGED <<paused_simulations, sim_speed_multipliers, webhook_url>>]_vars

\* C22: the window is fixed, not sliding: a request changes its user's
\* expiry only when its increment returned 1, and a user whose counter is
\* beyond the limit has an expiry that ends no later than RATE_LIMIT_WINDOW
\* seconds after the first request of the window, so that the user is
\* allowed again by then however many requests were rejected meanwhile.
C22_FixedWindow ==
    [][/\ (last = Idle /\ last'.wrapped) =>
              (ttl'[last'.user] # ttl[last'.user] => last'.cnt = 1)
       /\ \A u \in Users :
              count'[u] > RATE_LIMIT_MAX =>
                  ttl'[u] \in 1..(RATE_LIMIT_WINDOW - winAge'[u])]_vars

\* C23: a success reply implies that the mutation is in the store: /stop
\* replies "Simulation paused" only if the flag of tn is set afterwards,
\* /continue replies "Simulation resumed" only if tn was paused before and
\* is not afterwards, /setspeed replies "Simulation speed set" only if the
\* multiplier of tn is the new speed afterwards; with or without a store
\* client.
C23_SuccessIsStored ==
    [][(last = Idle /\ last' # Idle) =>
          \A tn \in TrackingNumbers :
              /\ (last'.entry = "/stop"
                    /\ HasEvent(last'.tr, <<"reply", "Simulation paused", tn>>)) =>
                     paused_simulations'[tn]
              /\ (last'.entry = "/continue"
                    /\ HasEvent(last'.tr, <<"reply", "Simulation resumed", tn>>)) =>
                     (paused_simulations[tn] /\ ~paused_simulations'[tn])
              /\ (last'.entry = "/setspeed"
                    /\ HasEvent(last'.tr, <<"reply", "Simulation speed set", tn>>)) =>
                     sim_speed_multipliers'[tn] = StrOfFloat(ParseFloat(last'.inp[2]))]_vars

\* the replies with which /stop and /continue refuse a request
RefusalTexts == {"Access denied.", "Usage", "Invalid tracking number.", "Shipment not found",
                 "Shipment is already completed", "Simulation is already paused",
                 "Simulation is not paused"}
Refused == \E i \in DOMAIN last.tr : last.tr[i][1] = "reply" /\ last.tr[i][2] \in RefusalTexts

\* C24: /stop writes the pause flag of tn only for a shipment that exists,
\* is neither Delivered nor Returned and is not already paused; /continue
\* removes it only for an existing, non-completed shipment that is paused;
\* on every refused path the flags and the cache are unchanged.
C24_PauseGuards ==
    [][(last = Idle /\ last'.entry \in {"/stop", "/continue"}) =>
          /\ \A tn \in TrackingNumbers :
                HasEvent(last'.tr, <<"mutate", "paused", tn>>) =>
                    /\ shipments[tn] # "absent"
                    /\ shipments[tn] \notin Completed
                    /\ paused_simulations[tn] = (last'.entry = "/continue")
          /\ Refused' => UNCHANGED <<paused_simulations, cache>>]_vars

\* C25: pause and resume, store available and shipment active: after a
\* successful /stop tn, a /continue tn succeeds and gives paused_simulations
\* the value it had before the /stop, while a second /stop tn is refused as
\* already paused and changes nothing; after a successful /continue tn, a
\* second /continue tn is refused as not paused and changes nothing.
C25_PauseResumeRoundTrip ==
    [][(last = Idle /\ last'.entry \in {"/stop", "/continue"} /\ Len(last'.inp) >= 1) =>
          LET tn == last'.inp[1]
              m == Msg(last'.user, last'.inp)
              again == IF last'.entry = "/stop"
                       THEN stop_simulation(Backend', m, NoFault)
                       ELSE continue_simulation(Backend', m, NoFault)
              back == continue_simulation(Backend', m, NoFault)
          IN  /\ HasEvent(last'.tr, <<"reply", "Simulation paused", tn>>) =>
                    /\ HasEvent(back.tr, <<"reply", "Simulation resumed", tn>>)
                    /\ back.s.paused = paused_simulations
                    /\ HasEvent(again.tr, <<"reply", "Simulation is already paused", tn>>)
                    /\ again.s = Backend'
              /\ HasEvent(last'.tr, <<"reply", "Simulation resumed", tn>>) =>
                    /\ HasEvent(again.tr, <<"reply", "Simulation is not paused", tn>>)
                    /\ again.s = Backend']_vars

C25_Witness ==
    /\ redis_client
    /\ last.entry = "/continue"
    /\ last.inp = <<"T1">>
    /\ HasEvent(last.tr, <<"redis", "hdel", "T1">>)
    /\ HasEvent(last.tr, <<"reply", "Simulation resumed", "T1">>)
    /\ ~paused_simulations["T1"]
    /\ shipments["T1"] \notin Completed

\* the prefixes whose menu branch stands after their per-shipment branch
ShadowedMenus == {"delete", "broadcast", "setspeed", "getspeed"}

\* C26: callback data delete_menu_<n>, broadcast_menu_<n>, setspeed_menu_<n>
\* and getspeed_menu_<n> reaches the branch written for it: it is routed to
\* show_shipment_menu for that prefix and not to the per-shipment action
\* with "menu" taken as the tracking number.
C26_MenuBranchReached ==
    (/\ Handled
     /\ last.entry = "callback"
     /\ Len(last.inp) = 3
     /\ last.inp[1] \in ShadowedMenus
     /\ last.inp[2] = "menu"
     /\ IsInt(last.inp[3])) =>
        /\ HasEvent(last.tr, <<"route", "show_shipment_menu", last.inp[1]>>)
        /\ \A i \in DOMAIN last.tr : last.tr[i][3] \notin {"menu", Composite}

\* the pieces of the prefixes of the per-shipment buttons: those that
\* show_shipment_menu renders as <prefix>_<tn>_<page> (line 619, for the
\* prefixes its callers pass) and those rendered as <prefix>_<tn>
PagedPrefixes == {<<"view">>, <<"delete">>, <<"toggle", "email">>, <<"pause">>, <<"resume">>,
                  <<"bulk", "pause">>, <<"bulk", "resume">>, <<"batch", "select">>}
PlainPrefixes == {<<"broadcast">>, <<"setspeed">>, <<"getspeed">>, <<"notify">>,
                  <<"set", "webhook">>, <<"test", "webhook">>, <<"send", "email">>,
                  <<"send", "webhook">>}

\* callback_data=f"{prefix}_{tn}_{page}" and f"{prefix}_{tn}"
Button(prefix, tn, page) == prefix \o <<tn, page>>
PlainButton(prefix, tn) == prefix \o <<tn>>

\* the tracking number the button pressed last was rendered for, or None
\* when the callback data is not that of a per-shipment button
ButtonShipment ==
    IF \E p \in PagedPrefixes, t \in TrackingNumbers, n \in Pages : last.inp = Button(p, t, n)
    THEN last.inp[Len(last.inp) - 1]
    ELSE IF \E p \in PlainPrefixes, t \in TrackingNumbers : last.inp = PlainButton(p, t)
    THEN last.inp[Len(last.inp)]
    ELSE None

\* C27: button round trip: for every per-shipment button the module renders
\* and an admin presses, handle_callback selects an action and that action
\* is given exactly the tracking number that was encoded in the button.
C27_ButtonRoundTrip ==
    (Handled /\ last.entry = "callback" /\ is_admin(last.user) /\ ButtonShipment # None) =>
        /\ \E i \in DOMAIN last.tr : last.tr[i][3] = ButtonShipment
        /\ \A i \in DOMAIN last.tr :
              last.tr[i][3] \in (TrackingNumbers \cup {Composite}) =>
                  last.tr[i][3] = ButtonShipment

\* C28: pagination: pressing the Previous or Next button that
\* show_shipment_menu renders for a prefix on page p shows the menu of the
\* same prefix on page p-1 or p+1, and pressing the Next button of /search
\* shows a further page of the same query.
C28_Navigation ==
    (Handled /\ last.entry = "callback") =>
        /\ \A p \in MenuPrefixes, n \in NavPages, t \in Totals :
              \A b \in NavButtons(p, n, t) :
                  last.inp = b.data =>
                      /\ HasEvent(last.tr, <<"route", "show_shipment_menu", p>>)
                      /\ HasEvent(last.tr, <<"route", "page", PageStr(b.to)>>)
        /\ \A t \in Totals :
              last.inp \in SearchNext("all", t) =>
                  HasEvent(last.tr, <<"call", "search_shipments", "all">>)

\* the number of replies the request handled last sent to its requester
\* (bot.reply_to, or the menu message that send_dynamic_menu sends)
Replies ==
    Cardinality({i \in DOMAIN last.tr :
                    \/ last.tr[i][1] = "reply"
                    \/ last.tr[i][1] = "call" /\ last.tr[i][2] = "send_dynamic_menu"})

\* C29: exactly one response per slash command: every invocation of a
\* command wrapped by rate_limit sends exactly one reply to the requester,
\* on every path, the rejection by the rate limiter and the exception paths
\* included.
C29_OneReply ==
    (Handled /\ last.wrapped) => Replies = 1
====
